---------------------------- MODULE Spec2Model ----------------------------
(***************************************************************************)
(* StakeHistorySysvar::get_entry (program/src/state/stake_history_sysvar.rs)*)
(* as a state machine: the offset calculation on u64 epochs, the read of a  *)
(* 32-byte range of a sysvar through get_sysvar, and the decoding of the    *)
(* record that was read.                                                    *)
(*                                                                          *)
(* A u64 is a sequence of four 16-bit limbs, least significant first: TLC's *)
(* integers are 32 bits wide, the program's are 64.  The arithmetic of the  *)
(* program (checked_sub, saturating_sub, checked_mul, checked_add) is done  *)
(* limb by limb with the carry or borrow deciding the overflow, as the      *)
(* machine does it.                                                         *)
(***************************************************************************)
EXTENDS Integers, Sequences, FiniteSets, TLC

\* ------------------------------------------------------------ u64 values

\* The base of one limb.
LimbBase == 2 ^ 16

\* The number of 16-bit limbs of a 64-bit integer.
U64Limbs == 64 \div 16

\* A small natural number (below 2^31) as n limbs.
LimbsOfNat(v, n) ==
    [i \in 1..n |-> IF i = 1 THEN v % LimbBase
                    ELSE IF i = 2 THEN v \div LimbBase
                    ELSE 0]

\* A small natural number as a u64 (the `as u64` of a usize constant).
AsU64(v) == LimbsOfNat(v, U64Limbs)

\* u64::MAX
U64Max == [i \in 1..U64Limbs |-> LimbBase - 1]

\* a + b on limb sequences of one length: the sum modulo the width, and the
\* carry out of the most significant limb.
AddLimbs(a, b) ==
    LET n == Len(a)
        c[i \in 0..n] == IF i = 0 THEN 0 ELSE (a[i] + b[i] + c[i - 1]) \div LimbBase
    IN  [val |-> [i \in 1..n |-> (a[i] + b[i] + c[i - 1]) % LimbBase],
         carry |-> c[n]]

\* a - b on limb sequences of one length: the difference modulo the width,
\* and the borrow out of the most significant limb (1 exactly when a < b).
SubLimbs(a, b) ==
    LET n == Len(a)
        br[i \in 0..n] == IF i = 0 THEN 0
                          ELSE IF a[i] - b[i] - br[i - 1] < 0 THEN 1 ELSE 0
    IN  [val |-> [i \in 1..n |-> (a[i] - b[i] - br[i - 1] + LimbBase) % LimbBase],
         carry |-> br[n]]

\* a * k for a small factor k (below 2^15): the product modulo the width and
\* the carry out of the most significant limb.
MulLimbs(a, k) ==
    LET n == Len(a)
        c[i \in 0..n] == IF i = 0 THEN 0 ELSE (a[i] * k + c[i - 1]) \div LimbBase
    IN  [val |-> [i \in 1..n |-> (a[i] * k + c[i - 1]) % LimbBase],
         carry |-> c[n]]

\* Option<T>
None == [some |-> FALSE]
Some(v) == [some |-> TRUE, val |-> v]

\* a < b on u64
Lt(a, b) == SubLimbs(a, b).carry = 1

\* u64::checked_sub
checked_sub(a, b) ==
    LET r == SubLimbs(a, b) IN IF r.carry = 1 THEN None ELSE Some(r.val)

\* u64::saturating_sub
saturating_sub(a, b) ==
    LET r == SubLimbs(a, b) IN IF r.carry = 1 THEN AsU64(0) ELSE r.val

\* u64::checked_mul by a constant
checked_mul(a, k) ==
    LET r == MulLimbs(a, k) IN IF r.carry # 0 THEN None ELSE Some(r.val)

\* u64::checked_add of a constant
checked_add(a, k) ==
    LET r == AddLimbs(a, AsU64(k)) IN IF r.carry # 0 THEN None ELSE Some(r.val)

\* u64::saturating_add of a constant
saturating_add(a, k) ==
    LET r == AddLimbs(a, AsU64(k)) IN IF r.carry # 0 THEN U64Max ELSE r.val

\* u64::saturating_mul by a constant
saturating_mul(a, k) ==
    LET r == MulLimbs(a, k) IN IF r.carry # 0 THEN U64Max ELSE r.val

\* u64::from_le_bytes: eight bytes, least significant first, to a u64.
from_le_bytes(b) == [i \in 1..U64Limbs |-> b[2 * i - 1] + 256 * b[2 * i]]

\* u64::to_le_bytes (the serializer's side of the layout).
to_le_bytes(x) ==
    [j \in 1..8 |-> IF j % 2 = 1 THEN x[(j + 1) \div 2] % 256
                    ELSE x[j \div 2] \div 256]

\* A u64 small enough for TLC's integers (below 2^30), and its value.
IsSmall(x) == x[3] = 0 /\ x[4] = 0 /\ x[2] < 2 ^ 14
NatOf(x) == x[1] + LimbBase * x[2]

\* ------------------------------------------------------------ constants

\* pub const MAX_ENTRIES: usize = 512
MAX_ENTRIES == 512

\* const EPOCH_AND_ENTRY_SERIALIZED_SIZE: u64 = 32
EPOCH_AND_ENTRY_SERIALIZED_SIZE == 32

\* core::mem::size_of::<u64>()
SizeOfU64 == 8

\* The address of the stake history sysvar, the resource the module's
\* documentation names.
StakeHistoryId == "SysvarStakeHistory1111111111111111111111111"

\* The address of the slot history sysvar.
SlotHistoryId == "SysvarS1otHistory11111111111111111111111111"

SysvarIds == {StakeHistoryId, SlotHistoryId}

\* stake_history_id::id(): the address declare_id! is given.
id == "SysvarS1otHistory11111111111111111111111111"

\* ------------------------------------------------------------ bounds

\* Concurrent callers of get_entry.
NumCallers == 2

\* The last epoch the chain of ChainSpec enters.
MaxEpoch == 514

Callers == 1..NumCallers

\* ------------------------------------------------------------ the resource

\* A sysvar the read facility does not serve.
Unsupported == [kind |-> "unsupported"]

\* A sysvar holding a serialized history: entries is the in-memory history,
\* a sequence of [epoch, entry], newest first.
HistoryResource(entries) == [kind |-> "history", entries |-> entries]

\* A sysvar holding other bytes.
RawResource(bytes) == [kind |-> "raw", bytes |-> bytes]

\* The serialized size of a resource in bytes: an 8-byte count, then 32
\* bytes for each record.
ResourceLen(r) ==
    CASE r.kind = "history" ->
             SizeOfU64 + EPOCH_AND_ENTRY_SERIALIZED_SIZE * Len(r.entries)
      [] r.kind = "raw" -> Len(r.bytes)
      [] OTHER -> 0

\* Byte j (from 0) of the serialized resource.  A history is the
\* little-endian count of its records, then for each record the
\* little-endian epoch, effective, activating and deactivating.
ResourceByte(r, j) ==
    IF r.kind = "raw" THEN r.bytes[j + 1]
    ELSE IF j < SizeOfU64 THEN to_le_bytes(AsU64(Len(r.entries)))[j + 1]
    ELSE LET rec == r.entries[(j - SizeOfU64) \div EPOCH_AND_ENTRY_SERIALIZED_SIZE + 1]
             k == (j - SizeOfU64) % EPOCH_AND_ENTRY_SERIALIZED_SIZE
             field == CASE k \div 8 = 0 -> rec.epoch
                        [] k \div 8 = 1 -> rec.entry.effective
                        [] k \div 8 = 2 -> rec.entry.activating
                        [] OTHER -> rec.entry.deactivating
         IN  to_le_bytes(field)[(k % 8) + 1]

\* StakeHistory::add: the record goes to its place in the descending order
\* of epochs (replacing a record of the same epoch), and the history is cut
\* to MAX_ENTRIES records.
add(entries, epoch, entry) ==
    LET newer == {i \in 1..Len(entries) : Lt(epoch, entries[i].epoch)}
        older == {i \in 1..Len(entries) : Lt(entries[i].epoch, epoch)}
        all == SubSeq(entries, 1, Cardinality(newer))
                 \o <<[epoch |-> epoch, entry |-> entry]>>
                 \o SubSeq(entries, Len(entries) - Cardinality(older) + 1, Len(entries))
    IN  SubSeq(all, 1, IF Len(all) > MAX_ENTRIES THEN MAX_ENTRIES ELSE Len(all))

\* StakeHistory::get: the entry recorded for the epoch, if any.
get(entries, epoch) ==
    IF \E i \in 1..Len(entries) : entries[i].epoch = epoch
    THEN Some(entries[CHOOSE i \in 1..Len(entries) : entries[i].epoch = epoch].entry)
    ELSE None

\* The entry the tests record for an epoch.
unique_entry_for_epoch(epoch) ==
    [activating |-> saturating_mul(epoch, 2),
     deactivating |-> saturating_mul(epoch, 3),
     effective |-> saturating_mul(epoch, 5)]

\* The entry get_entry returns for a recorded entry: its three fields as the
\* eight bytes each has in the record.
EntryBytes(entry) ==
    [effective |-> to_le_bytes(entry.effective),
     activating |-> to_le_bytes(entry.activating),
     deactivating |-> to_le_bytes(entry.deactivating)]


\* ------------------------------------------------------------ state

VARIABLES
    current_epoch,  \* StakeHistorySysvar.0, the epoch of the accessor
    sysvars,        \* the sysvars of the environment, by address
    pc,             \* per caller: idle, compute, read, match or returned
    target_epoch,   \* per caller: the argument of get_entry
    offset,         \* per caller: the local offset
    result,         \* per caller: the local result of get_sysvar
    entry_buf,      \* per buffer: the local entry_buf of a call
    ret,            \* per caller: the outcome of the call that returned
    exit_line,      \* per caller: the source line the call left through
    requests        \* per caller: the ranges the call asked get_sysvar for

vars == <<current_epoch, sysvars, pc, target_epoch, offset, result, entry_buf,
          ret, exit_line, requests>>

\* The outcome of a call that ended in the panic of assert_eq!.
Panic == [some |-> FALSE, panic |-> TRUE]

\* [0; EPOCH_AND_ENTRY_SERIALIZED_SIZE as usize]
ZeroBuf == [i \in 1..EPOCH_AND_ENTRY_SERIALIZED_SIZE |-> 0]

\* get_sysvar(dst, sysvar_id, offset, length): fills dst with length bytes of
\* the sysvar from offset on; fails, leaving dst as it was, when the sysvar
\* is not served or the range ends past the sysvar's data.
get_sysvar(dst, sysvar_id, off, length) ==
    LET r == sysvars[sysvar_id] IN
    IF r.kind # "unsupported" /\ IsSmall(off) /\ NatOf(off) + length <= ResourceLen(r)
    THEN [ok |-> TRUE, dst |-> [i \in 1..length |-> ResourceByte(r, NatOf(off) + i - 1)]]
    ELSE [ok |-> FALSE, dst |-> dst]

\* ------------------------------------------------------------ get_entry

\* A variant: wrapping_sub in place of checked_sub.
newest_wrapping(current) == Some(SubLimbs(current, AsU64(1)).val)

\* let newest_historical_epoch = current_epoch.checked_sub(1)
newest_historical_epoch(current) == checked_sub(current, AsU64(1))

\* A variant: one epoch more than MAX_ENTRIES is taken for retained.
oldest_off_by_one(current) == saturating_sub(current, AsU64(MAX_ENTRIES + 1))

\* let oldest_historical_epoch = current_epoch.saturating_sub(MAX_ENTRIES as u64)
oldest_historical_epoch(current) == saturating_sub(current, AsU64(MAX_ENTRIES))

\* A variant: saturating_sub in place of checked_sub.
epoch_delta_saturating(newest, target) == Some(saturating_sub(newest, target))

\* let epoch_delta = newest_historical_epoch.checked_sub(target_epoch)
epoch_delta(newest, target) == checked_sub(newest, target)

\* epoch_delta.checked_mul(EPOCH_AND_ENTRY_SERIALIZED_SIZE)
records_offset(delta) == checked_mul(delta, EPOCH_AND_ENTRY_SERIALIZED_SIZE)

\* A variant: the eight bytes of the vector's length are not skipped.
without_length_prefix(bytes) == Some(bytes)

\* .checked_add(core::mem::size_of::<u64>() as u64)
with_length_prefix(bytes) == checked_add(bytes, SizeOfU64)

\* The first part of get_entry, to the offset: the offset, or the line of
\* the `?` or `return None` the call leaves through.
compute_offset(current, target) ==
    LET newest == newest_historical_epoch(current) IN
    IF ~newest.some THEN [ok |-> FALSE, line |-> 40]
    ELSE IF Lt(target, oldest_historical_epoch(current))
    THEN [ok |-> FALSE, line |-> 45]
    ELSE LET delta == epoch_delta(newest.val, target) IN
    IF ~delta.some THEN [ok |-> FALSE, line |-> 50]
    ELSE LET bytes == records_offset(delta.val) IN
    IF ~bytes.some THEN [ok |-> FALSE, line |-> 54]
    ELSE LET off == with_length_prefix(bytes.val) IN
    IF ~off.some THEN [ok |-> FALSE, line |-> 55]
    ELSE [ok |-> TRUE, offset |-> off.val]

\* A variant: one static buffer for every call.
shared_buffer(c) == 1

\* The buffer a call's entry_buf is: a local of the call.
buffer_of(c) == c

\* A variant: a read that failed is tried again.
retry_after_read(ok) == IF ok THEN "match" ELSE "read"

\* Where a call goes after get_sysvar returned: to the match on the result.
after_read(ok) == "match"

\* A variant: the result of get_sysvar is not looked at.
read_result_ignored(res) == TRUE

\* The arm of `match result` taken: Ok(()) or the wildcard.
read_succeeded(res) == res = "Ok"

\* A variant: the assertion is compiled out.
epoch_check_skipped(entry_epoch, target) == TRUE

\* assert_eq!(u64::from_le_bytes(entry_epoch), target_epoch)
epoch_matches(entry_epoch, target) == from_le_bytes(entry_epoch) = target

\* The Ok arm of the match: the entry of the buffer, or the panic.
decode(buf, target) ==
    LET entry_epoch == SubSeq(buf, 1, 8)
        effective == SubSeq(buf, 9, 16)
        activating == SubSeq(buf, 17, 24)
        deactivating == SubSeq(buf, 25, 32)
    IN  IF epoch_matches(entry_epoch, target)
        THEN [line |-> 76,
              ret |-> Some([effective |-> effective, activating |-> activating,
                            deactivating |-> deactivating])]
        ELSE [line |-> 74, ret |-> Panic]

\* get_entry as one call, run alone against the sysvars.
get_entry(current, target) ==
    LET r == compute_offset(current, target) IN
    IF ~r.ok THEN None
    ELSE LET got == get_sysvar(ZeroBuf, id, r.offset, EPOCH_AND_ENTRY_SERIALIZED_SIZE)
         IN  IF read_succeeded(IF got.ok THEN "Ok" ELSE "Err")
             THEN decode(got.dst, target).ret
             ELSE None

\* ------------------------------------------------------------ steps of a call

NoOffset == AsU64(0)
NotReturned == [some |-> FALSE, running |-> TRUE]

\* get_entry(&self, target_epoch) is called: the locals of the call before
\* are gone.
Call(c, t) ==
    /\ pc[c] \in {"idle", "returned"}
    /\ pc' = [pc EXCEPT ![c] = "compute"]
    /\ target_epoch' = [target_epoch EXCEPT ![c] = t]
    /\ offset' = [offset EXCEPT ![c] = NoOffset]
    /\ result' = [result EXCEPT ![c] = "unset"]
    /\ ret' = [ret EXCEPT ![c] = NotReturned]
    /\ exit_line' = [exit_line EXCEPT ![c] = 0]
    /\ requests' = [requests EXCEPT ![c] = <<>>]
    /\ entry_buf' = [entry_buf EXCEPT ![buffer_of(c)] = ZeroBuf]
    /\ UNCHANGED <<current_epoch, sysvars>>

\* The call computes the offset, or returns None.
ComputeRange(c) ==
    /\ pc[c] = "compute"
    /\ LET r == compute_offset(current_epoch, target_epoch[c]) IN
       IF r.ok
       THEN /\ offset' = [offset EXCEPT ![c] = r.offset]
            /\ pc' = [pc EXCEPT ![c] = "read"]
            /\ UNCHANGED <<ret, exit_line>>
       ELSE /\ pc' = [pc EXCEPT ![c] = "returned"]
            /\ ret' = [ret EXCEPT ![c] = None]
            /\ exit_line' = [exit_line EXCEPT ![c] = r.line]
            /\ UNCHANGED offset
    /\ UNCHANGED <<current_epoch, sysvars, target_epoch, result, entry_buf, requests>>

\* The call zeroes its buffer and asks get_sysvar for the range.
Read(c) ==
    /\ pc[c] = "read"
    /\ LET got == get_sysvar(ZeroBuf, id, offset[c], EPOCH_AND_ENTRY_SERIALIZED_SIZE) IN
       /\ entry_buf' = [entry_buf EXCEPT ![buffer_of(c)] = got.dst]
       /\ result' = [result EXCEPT ![c] = IF got.ok THEN "Ok" ELSE "Err"]
       /\ pc' = [pc EXCEPT ![c] = after_read(got.ok)]
    /\ requests' = [requests EXCEPT ![c] =
                       Append(@, [id |-> id, offset |-> offset[c],
                                  length |-> EPOCH_AND_ENTRY_SERIALIZED_SIZE])]
    /\ UNCHANGED <<current_epoch, sysvars, target_epoch, offset, ret, exit_line>>

\* The match on the result: the entry or the panic after a read that
\* succeeded, None after one that failed.
Match(c) ==
    /\ pc[c] = "match"
    /\ pc' = [pc EXCEPT ![c] = "returned"]
    /\ IF read_succeeded(result[c])
       THEN LET d == decode(entry_buf[buffer_of(c)], target_epoch[c]) IN
            /\ ret' = [ret EXCEPT ![c] = d.ret]
            /\ exit_line' = [exit_line EXCEPT ![c] = d.line]
       ELSE /\ ret' = [ret EXCEPT ![c] = None]
            /\ exit_line' = [exit_line EXCEPT ![c] = 82]
    /\ UNCHANGED <<current_epoch, sysvars, target_epoch, offset, result, entry_buf,
                   requests>>


\* ------------------------------------------------------------ inputs

\* The epochs an accessor is constructed with: the first epochs, the epochs
\* around MAX_ENTRIES, the epochs of the examples, the limb boundaries, 2^59
\* (where a delta times 32 leaves 64 bits) and the last epochs.
CurrentEpochs ==
    {AsU64(0), AsU64(1), AsU64(2), AsU64(512), AsU64(513), AsU64(600), AsU64(1000),
     AsU64(65536), <<0, 0, 1, 0>>, <<0, 0, 0, 2048>>,
     SubLimbs(U64Max, AsU64(1)).val, U64Max}

\* The targets a caller asks for: the ends of the range of u64, the current
\* epoch and its neighbours, and the epochs around the oldest one retained.
TargetsOf(current) ==
    {AsU64(0), AsU64(1), U64Max, current, AddLimbs(current, AsU64(1)).val}
      \cup {SubLimbs(current, AsU64(k)).val : k \in {1, 2, 511, 512, 513, 514}}

\* The history of n epochs that ends with the epoch newest, every epoch
\* with the entry the tests record for it.
RecentHistory(newest, n) ==
    [i \in 1..n |->
        LET e == SubLimbs(newest, AsU64(i - 1)).val
        IN  [epoch |-> e, entry |-> unique_entry_for_epoch(e)]]

\* The number of epochs before current that a history retains.
Retained(current) ==
    IF Lt(current, AsU64(MAX_ENTRIES)) THEN NatOf(current) ELSE MAX_ENTRIES

\* The history of an accessor's epoch: an entry for each epoch before it,
\* the newest MAX_ENTRIES of them.
InSync(current) ==
    HistoryResource(RecentHistory(SubLimbs(current, AsU64(1)).val, Retained(current)))

\* The three newest records of the history of an accessor's epoch.
Newest3(current) ==
    HistoryResource(RecentHistory(SubLimbs(current, AsU64(1)).val,
                                  IF Retained(current) < 3 THEN Retained(current) ELSE 3))

\* A history that misses the epoch before current: its newest record is of
\* the epoch before that one.
Lagging(current) ==
    HistoryResource(RecentHistory(SubLimbs(current, AsU64(2)).val, 3))

\* Bytes that are no history.
Garbage == RawResource([i \in 1..72 |-> 171])

\* What a sysvar may hold when an accessor of the epoch current is used.
ResourceSamples(current) ==
    {Unsupported, HistoryResource(<<>>), InSync(current), Lagging(current), Garbage}

\* The state of the callers before any call.
CallersInit ==
    /\ pc = [c \in Callers |-> "idle"]
    /\ target_epoch = [c \in Callers |-> AsU64(0)]
    /\ offset = [c \in Callers |-> NoOffset]
    /\ result = [c \in Callers |-> "unset"]
    /\ entry_buf = [c \in Callers |-> ZeroBuf]
    /\ ret = [c \in Callers |-> NotReturned]
    /\ exit_line = [c \in Callers |-> 0]
    /\ requests = [c \in Callers |-> <<>>]

\* ------------------------------------------------------------ Spec
\* One caller, any accessor, any contents of the sysvars.

Init ==
    /\ current_epoch \in CurrentEpochs
    /\ sysvars \in {[i \in SysvarIds |-> IF i = StakeHistoryId THEN a ELSE b] :
                       a \in {Unsupported, InSync(current_epoch)},
                       b \in ResourceSamples(current_epoch)}
    /\ CallersInit

Next ==
    \/ \E t \in TargetsOf(current_epoch) : Call(1, t)
    \/ ComputeRange(1)
    \/ Read(1)
    \/ Match(1)

Spec == Init /\ [][Next]_vars

\* ------------------------------------------------------------ ConcSpec
\* Several callers share one accessor and the unchanging sysvars.

\* The accessor's epochs: one with a short history, one past MAX_ENTRIES,
\* the last one.
ConcEpochs == {AsU64(2), AsU64(600), U64Max}

\* The targets: epoch 0, the current epoch, the two before it, and the
\* epochs on both sides of the oldest one retained.
ConcTargets(current) ==
    {AsU64(0), current} \cup {SubLimbs(current, AsU64(k)).val : k \in {1, 2, 512, 513}}

ConcInit ==
    /\ current_epoch \in ConcEpochs
    /\ sysvars \in {[i \in SysvarIds |-> IF i = StakeHistoryId THEN Unsupported ELSE b] :
                       b \in {Newest3(current_epoch), Lagging(current_epoch)}}
    /\ CallersInit

ConcNext ==
    \E c \in Callers :
        \/ \E t \in ConcTargets(current_epoch) : Call(c, t)
        \/ ComputeRange(c)
        \/ Read(c)
        \/ Match(c)

ConcSpec == ConcInit /\ [][ConcNext]_vars

\* ------------------------------------------------------------ ChainSpec
\* The chain records the stake history epoch after epoch, in the stake
\* history sysvar; a program calls get_entry with the accessor of the
\* chain's epoch.

\* The bytes of the slot history sysvar: a bit for each slot.
SlotHistoryBytes == RawResource([i \in 1..72 |-> 255])

ChainTargets(current) ==
    {AsU64(0), current} \cup {SubLimbs(current, AsU64(k)).val : k \in {1, 512, 513}}

ChainInit ==
    /\ current_epoch = AsU64(0)
    /\ sysvars \in {[i \in SysvarIds |->
                        IF i = StakeHistoryId THEN HistoryResource(<<>>) ELSE b] :
                       b \in {Unsupported, SlotHistoryBytes}}
    /\ CallersInit

\* The epoch ends: its entry is added to the stake history, and the next
\* epoch begins with no call of the epoch before left.
AdvanceEpoch ==
    /\ \A c \in Callers : pc[c] \in {"idle", "returned"}
    /\ Lt(current_epoch, AsU64(MaxEpoch))
    /\ sysvars' = [sysvars EXCEPT ![StakeHistoryId] =
                      HistoryResource(add(@.entries, current_epoch,
                                          unique_entry_for_epoch(current_epoch)))]
    /\ current_epoch' = saturating_add(current_epoch, 1)
    /\ pc' = [c \in Callers |-> "idle"]
    /\ target_epoch' = [c \in Callers |-> AsU64(0)]
    /\ offset' = [c \in Callers |-> NoOffset]
    /\ result' = [c \in Callers |-> "unset"]
    /\ entry_buf' = [c \in Callers |-> ZeroBuf]
    /\ ret' = [c \in Callers |-> NotReturned]
    /\ exit_line' = [c \in Callers |-> 0]
    /\ requests' = [c \in Callers |-> <<>>]

ChainNext ==
    \/ AdvanceEpoch
    \/ \E t \in ChainTargets(current_epoch) : Call(1, t)
    \/ ComputeRange(1)
    \/ Read(1)
    \/ Match(1)

ChainSpec == ChainInit /\ [][ChainNext]_vars


\* ------------------------------------------------------------ exact arithmetic
\* The claims speak of unbounded integers.  A u64 widened by a fifth limb
\* holds every value below 2^80, so sums and products of the claims (at most
\* 32 * 2^64 + 2^64) are exact in it.

Wide(x) == x \o <<0>>
WideNat(v) == LimbsOfNat(v, U64Limbs + 1)
WideSum(a, b) == AddLimbs(a, b).val
WideTimes(a, k) == MulLimbs(a, k).val
WideLess(a, b) == SubLimbs(a, b).carry = 1

\* o = (current - 1 - target) * 32 + 8 over the integers, stated without a
\* subtraction: o + 32 * target + 24 = 32 * current.
IsExactOffset(o, current, target) ==
    WideSum(WideSum(Wide(o), WideTimes(Wide(target), 32)), WideNat(24))
        = WideTimes(Wide(current), 32)

\* target < current - 512 over the integers: target + 512 < current.
AgedOut(current, target) ==
    WideLess(WideSum(Wide(target), WideNat(512)), Wide(current))

\* current >= 1 and max(0, current - 512) <= target <= current - 1.
InWindow(current, target) ==
    /\ WideLess(Wide(target), Wide(current))
    /\ ~AgedOut(current, target)

Returned(c) == pc[c] = "returned"

\* ------------------------------------------------------------ C1

\* C1: a call whose accessor's epoch is 0, or whose target is the current
\* epoch or a later one, or whose target is more than 512 epochs before the
\* current one, returns None, whatever the sysvars hold.
C1_NoneOutsideWindow ==
    \A c \in Callers :
        (Returned(c) /\ ~InWindow(current_epoch, target_epoch[c])) => ret[c] = None

\* A call for epoch 87 at epoch 600 returned None although the sysvar read
\* holds a history.
C1_Witness ==
    /\ Returned(1)
    /\ current_epoch = AsU64(600)
    /\ target_epoch[1] = AsU64(87)
    /\ sysvars[id] = InSync(current_epoch)
    /\ ret[1] = None

\* ------------------------------------------------------------ C2

\* C2: get_entry asks get_sysvar for a range exactly when the target is in
\* the window of the 512 epochs before the current one, and the range is
\* then the 32 bytes at (current - 1 - target) * 32 + 8: offset 40 for
\* current 1000 and target 998, offset 8 for current 1 and target 0.
C2_RequestedRange ==
    \A c \in Callers :
        /\ \A i \in 1..Len(requests[c]) :
              /\ InWindow(current_epoch, target_epoch[c])
              /\ IsExactOffset(requests[c][i].offset, current_epoch, target_epoch[c])
              /\ requests[c][i].length = 32
        /\ (Returned(c) /\ InWindow(current_epoch, target_epoch[c]))
              => Len(requests[c]) = 1
        /\ (Returned(c) /\ current_epoch = AsU64(1000) /\ target_epoch[c] = AsU64(998))
              => requests[c][1].offset = AsU64(40)
        /\ (Returned(c) /\ current_epoch = AsU64(1) /\ target_epoch[c] = AsU64(0))
              => requests[c][1].offset = AsU64(8)

\* The call for epoch 998 at epoch 1000 asked for the 32 bytes at 40.
C2_Witness ==
    /\ Returned(1)
    /\ current_epoch = AsU64(1000)
    /\ target_epoch[1] = AsU64(998)
    /\ Len(requests[1]) = 1
    /\ requests[1][1].offset = AsU64(40)
    /\ requests[1][1].length = 32

\* ------------------------------------------------------------ C3

\* The stake history the chain recorded.
RecordedHistory == sysvars[StakeHistoryId].entries

\* What a lookup of the epoch in the recorded history gives, as get_entry
\* returns an entry.
RecordedEntry(target) ==
    LET e == get(RecordedHistory, target)
    IN  IF e.some THEN Some(EntryBytes(e.val)) ELSE None

\* C3: with the stake history recorded epoch by epoch, get_entry returns
\* what a lookup in the recorded history returns: the entry of every epoch
\* of the retained window, None for every other epoch.
C3_AgreesWithHistory ==
    \A c \in Callers : Returned(c) => ret[c] = RecordedEntry(target_epoch[c])

\* ------------------------------------------------------------ C4

\* C4: after a read that succeeded, a buffer whose first eight bytes are
\* not the target epoch in little-endian order ends the call in the panic;
\* and an entry returned is the three fields of a buffer that was read and
\* whose first eight bytes are the target epoch.
C4_EpochChecked ==
    \A c \in Callers :
        Returned(c) =>
            /\ (result[c] = "Ok" /\ SubSeq(entry_buf[c], 1, 8) # to_le_bytes(target_epoch[c]))
                  => ret[c] = Panic
            /\ ret[c].some =>
                  /\ result[c] = "Ok"
                  /\ SubSeq(entry_buf[c], 1, 8) = to_le_bytes(target_epoch[c])
                  /\ ret[c].val = [effective |-> SubSeq(entry_buf[c], 9, 16),
                                   activating |-> SubSeq(entry_buf[c], 17, 24),
                                   deactivating |-> SubSeq(entry_buf[c], 25, 32)]

\* A read succeeded, the record read is of another epoch, and the call
\* panicked.
C4_Witness ==
    /\ Returned(1)
    /\ result[1] = "Ok"
    /\ SubSeq(entry_buf[1], 1, 8) # to_le_bytes(target_epoch[1])
    /\ ret[1] = Panic

\* ------------------------------------------------------------ C5

\* C5: a call whose read failed returns None through the wildcard arm, its
\* buffer still zeroed: no panic, no entry.
C5_FailedReadIsNone ==
    \A c \in Callers :
        (Returned(c) /\ result[c] = "Err") =>
            /\ ret[c] = None
            /\ exit_line[c] = 82
            /\ entry_buf[c] = ZeroBuf

\* A read of a history too short for the range failed and the call
\* returned None.
C5_Witness ==
    /\ Returned(1)
    /\ result[1] = "Err"
    /\ Len(requests[1]) = 1
    /\ sysvars[id].kind = "history"
    /\ ret[1] = None

\* ------------------------------------------------------------ C6

\* C6: from epoch 513 on, the epoch 513 before the current one gives None,
\* and the epoch 512 before it is asked for at offset 16360 and gives its
\* entry when the stake history holds it.
C6_RetentionBoundary ==
    \A c \in Callers :
        (Returned(c) /\ ~Lt(current_epoch, AsU64(513))) =>
            /\ target_epoch[c] = SubLimbs(current_epoch, AsU64(513)).val
                  => ret[c] = None
            /\ target_epoch[c] = SubLimbs(current_epoch, AsU64(512)).val
                  => /\ Len(requests[c]) = 1
                     /\ requests[c][1].offset = AsU64(16360)
                     /\ get(RecordedHistory, target_epoch[c]).some => ret[c].some

\* ------------------------------------------------------------ C7

\* C7: over the whole range of u64, an offset get_entry computes is the
\* value of (current - 1 - target) * 32 + 8 over the integers, and a call
\* that computes none returns None.
C7_NoWraparound ==
    \A c \in Callers :
        /\ pc[c] \in {"read", "match"}
              => IsExactOffset(offset[c], current_epoch, target_epoch[c])
        /\ \A i \in 1..Len(requests[c]) :
              IsExactOffset(requests[c][i].offset, current_epoch, target_epoch[c])
        /\ (Returned(c) /\ requests[c] = <<>>) => ret[c] = None

\* At the last epoch of u64 a call for epoch 0 returned None without a read.
C7_Witness ==
    /\ Returned(1)
    /\ current_epoch = U64Max
    /\ target_epoch[1] = AsU64(0)
    /\ requests[1] = <<>>
    /\ ret[1] = None


\* ------------------------------------------------------------ C8

\* The steps of one call, in the order the code takes them.
CallOrder ==
    {<<"idle", "compute">>, <<"returned", "compute">>, <<"compute", "read">>,
     <<"compute", "returned">>, <<"read", "match">>, <<"match", "returned">>}

\* What holds of a call at every step: at most one request, made only for
\* a target of the window; a match only after a request; lines 74 and 76
\* only after a read that succeeded; an outcome exactly when returned.
C8_Pipeline ==
    \A c \in Callers :
        /\ Len(requests[c]) <= 1
        /\ requests[c] # <<>> => InWindow(current_epoch, target_epoch[c])
        /\ pc[c] = "match" => requests[c] # <<>>
        /\ exit_line[c] \in {74, 76} => (result[c] = "Ok" /\ Len(requests[c]) = 1)
        /\ Returned(c) <=> ret[c] # NotReturned
        /\ Returned(c) => (ret[c] = None \/ ret[c] = Panic \/ ret[c].some)

\* C8: a call computes the range, then reads, then decodes: get_sysvar is
\* asked at most once and only for a target the offset calculation
\* accepted, the epoch is checked and the entry decoded only after a read
\* that succeeded, and the call ends in None, an entry or the panic.
C8_ComputeReadDecode ==
    [][/\ C8_Pipeline'
       /\ \A c \in Callers : pc'[c] # pc[c] => <<pc[c], pc'[c]>> \in CallOrder]_vars

\* A call went through the three steps and returned an entry.
C8_Witness ==
    /\ Returned(1)
    /\ Len(requests[1]) = 1
    /\ result[1] = "Ok"
    /\ exit_line[1] = 76
    /\ ret[1].some

\* ------------------------------------------------------------ C9

\* C9: with several calls in progress at once, each call returns what it
\* returns when it runs alone, and no step of a call changes the accessor's
\* epoch, the sysvars or the buffer of another call.
C9_CallsIndependent ==
    [][/\ \A c \in Callers :
             pc'[c] = "returned" => ret'[c] = get_entry(current_epoch, target_epoch'[c])
       /\ current_epoch' = current_epoch
       /\ sysvars' = sysvars
       /\ \A c \in Callers :
             entry_buf'[c] # entry_buf[c] => pc'[c] # pc[c]]_vars

\* Two calls for different epochs overlapped: one has returned its entry
\* while the other, its buffer read, has not yet matched.
C9_Witness ==
    /\ pc[1] = "match"
    /\ result[1] = "Ok"
    /\ Returned(2)
    /\ ret[2].some
    /\ target_epoch[1] # target_epoch[2]
    /\ entry_buf[1] # entry_buf[2]

\* ------------------------------------------------------------ C10

\* The range a call asked for, in bytes from the start of the sysvar.
RangeStart(c) == NatOf(requests[c][1].offset)

\* C10: every range asked for starts at 8 + 32 * delta with delta in
\* 0..511, so it ends at or before byte 16392; the `?` of the checked
\* multiplication and addition are never taken; and the ranges of two
\* targets under one accessor do not overlap.
C10_RangesWithinSysvar ==
    /\ \A c \in Callers :
          /\ exit_line[c] \notin {54, 55}
          /\ \A i \in 1..Len(requests[c]) :
                LET o == requests[c][i].offset IN
                /\ IsSmall(o)
                /\ NatOf(o) >= 8
                /\ NatOf(o) <= 16360
                /\ (NatOf(o) - 8) % 32 = 0
                /\ (NatOf(o) - 8) \div 32 \in 0..511
                /\ NatOf(o) + requests[c][i].length <= 16392
    /\ \A c, d \in Callers :
          (/\ requests[c] # <<>>
           /\ requests[d] # <<>>
           /\ target_epoch[c] # target_epoch[d])
             => \/ RangeStart(c) + 32 <= RangeStart(d)
                \/ RangeStart(d) + 32 <= RangeStart(c)

\* One call asked for the oldest record retained, at 16360, another for the
\* newest, at 8.
C10_Witness ==
    /\ requests[1] # <<>>
    /\ requests[2] # <<>>
    /\ requests[1][1].offset = AsU64(16360)
    /\ requests[2][1].offset = AsU64(8)


=============================================================================
